---- MODULE Spec2Model ----
(***************************************************************************)
(* A model of the two non-GUI fragments of BeeRef:                         *)
(*   - beeref/fileio/image.py : exif_rotated_image and load_image          *)
(*   - tools/build_appimage.py: the AppImage build script                  *)
(* Strings are sequences of one-character strings (or of atomic tokens),   *)
(* images are pixel grids, and each function/script is a small state       *)
(* machine whose program counter follows the source line by line.          *)
(***************************************************************************)
EXTENDS Integers, Sequences, FiniteSets, TLC

\* ------------------------------------------------------------------ bounds
MaxPathLen == 4
MaxDim == 2
MaxOrient == 9
MaxLibs == 2

\* --------------------------------------------------------- string helpers
SeqsUpTo(S, n) == UNION {[1..k -> S] : k \in 0..n}

StartsWith(s, p) == Len(s) >= Len(p) /\ SubSeq(s, 1, Len(p)) = p

EndsWith(s, p) == Len(s) >= Len(p) /\ SubSeq(s, Len(s) - Len(p) + 1, Len(s)) = p

\* str.split(sep) for a one-character separator
RECURSIVE Split(_, _)
Split(s, sep) ==
    IF \A i \in 1..Len(s) : s[i] # sep
    THEN <<s>>
    ELSE LET i == CHOOSE k \in 1..Len(s) :
                      s[k] = sep /\ \A j \in 1..(k - 1) : s[j] # sep
         IN  <<SubSeq(s, 1, i - 1)>> \o Split(SubSeq(s, i + 1, Len(s)), sep)

\* sep.join(parts)
RECURSIVE Join(_, _)
Join(sep, parts) ==
    IF parts = <<>> THEN <<>>
    ELSE IF Len(parts) = 1 THEN parts[1]
    ELSE parts[1] \o sep \o Join(sep, Tail(parts))

\* the loop of posixpath.normpath over the '/'-separated components
RECURSIVE NormComps(_, _, _)
NormComps(comps, new, initial) ==
    IF comps = <<>> THEN new
    ELSE LET comp == Head(comps)
             rest == Tail(comps)
         IN  IF comp = <<>> \/ comp = <<".">>
             THEN NormComps(rest, new, initial)
             ELSE IF \/ comp # <<".", ".">>
                     \/ (initial = 0 /\ new = <<>>)
                     \/ (new # <<>> /\ new[Len(new)] = <<".", ".">>)
             THEN NormComps(rest, Append(new, comp), initial)
             ELSE IF new # <<>>
             THEN NormComps(rest, SubSeq(new, 1, Len(new) - 1), initial)
             ELSE NormComps(rest, new, initial)

\* os.path.normpath on POSIX
normpath(path) ==
    IF path = <<>> THEN <<".">>
    ELSE LET initial == IF StartsWith(path, <<"/", "/">>)
                           /\ ~StartsWith(path, <<"/", "/", "/">>)
                        THEN 2
                        ELSE IF StartsWith(path, <<"/">>) THEN 1 ELSE 0
             joined == Join(<<"/">>, NormComps(Split(path, "/"), <<>>, initial))
             full == [i \in 1..initial |-> "/"] \o joined
         IN  IF full = <<>> THEN <<".">> ELSE full

\* ------------------------------------------------------------------ images
Coords(w, h) == (0..(w - 1)) \X (0..(h - 1))

\* a w x h image whose pixel at (x, y) is labelled with its raster index
MkImage(w, h) == [w |-> w, h |-> h, px |-> [c \in Coords(w, h) |-> c[2] * w + c[1]]]

\* QImage(): the null image
NullImage == MkImage(0, 0)

isNullNever(img) == FALSE

\* QImage.isNull
isNull(img) == img.w = 0 \/ img.h = 0

MinOf(S) == CHOOSE m \in S : \A x \in S : m <= x

MaxOf(S) == CHOOSE m \in S : \A x \in S : m >= x

\* QTransform(): the identity matrix
QTransform == [m11 |-> 1, m12 |-> 0, m21 |-> 0, m22 |-> 1]

SinCCW(a) == CASE a = 90 -> -1 [] a = 180 -> 0 [] a = 270 -> 1 [] OTHER -> 0

\* sine of a multiple of 90 degrees, as QTransform.rotate special-cases it
Sin(a) == CASE a = 90 -> 1 [] a = 180 -> 0 [] a = 270 -> -1 [] OTHER -> 0

Cos(a) == CASE a = 90 -> 0 [] a = 180 -> -1 [] a = 270 -> 0 [] OTHER -> 1

\* QTransform.rotate(a): the rotation is applied before the current matrix
rotate(t, a) ==
    [m11 |-> Cos(a) * t.m11 + Sin(a) * t.m21,
     m12 |-> Cos(a) * t.m12 + Sin(a) * t.m22,
     m21 |-> (0 - Sin(a)) * t.m11 + Cos(a) * t.m21,
     m22 |-> (0 - Sin(a)) * t.m12 + Cos(a) * t.m22]

\* QTransform.map on a point: x' = m11*x + m21*y, y' = m12*x + m22*y
MapPoint(t, c) == <<t.m11 * c[1] + t.m21 * c[2], t.m12 * c[1] + t.m22 * c[2]>>

\* QImage.transformed(t): every pixel is moved by t, and the result is
\* translated so that its bounding rectangle starts at (0, 0)
transformed(img, t) ==
    IF isNull(img) THEN img
    ELSE LET src == Coords(img.w, img.h)
             xs == {MapPoint(t, c)[1] : c \in src}
             ys == {MapPoint(t, c)[2] : c \in src}
             nw == MaxOf(xs) - MinOf(xs) + 1
             nh == MaxOf(ys) - MinOf(ys) + 1
         IN  [w |-> nw, h |-> nh,
              px |-> [d \in Coords(nw, nh) |->
                        img.px[CHOOSE c \in src :
                                 MapPoint(t, c) = <<d[1] + MinOf(xs), d[2] + MinOf(ys)>>]]]

\* QImage.mirrored(horizontal, vertical)
mirrored(img, horizontal, vertical) ==
    [w |-> img.w, h |-> img.h,
     px |-> [d \in Coords(img.w, img.h) |->
               img.px[<<IF horizontal THEN img.w - 1 - d[1] ELSE d[1],
                        IF vertical THEN img.h - 1 - d[2] ELSE d[2]>>]]]

\* piexif.ImageIFD.Orientation
Orientation == 274

\* lines 49-73 of exif_rotated_image: the branch on the orientation value
ApplyOrientation(img, orientation) ==
    CASE orientation = 2 -> mirrored(img, TRUE, FALSE)
      [] orientation = 3 -> transformed(img, rotate(QTransform, 180))
      [] orientation = 4 -> mirrored(img, FALSE, TRUE)
      [] orientation = 5 -> mirrored(transformed(img, rotate(QTransform, 90)), TRUE, FALSE)
      [] orientation = 6 -> transformed(img, rotate(QTransform, 90))
      [] orientation = 7 -> mirrored(transformed(img, rotate(QTransform, 270)), TRUE, FALSE)
      [] orientation = 8 -> transformed(img, rotate(QTransform, 270))
      [] OTHER -> img

\* lines 44-47: the orientation is taken from the 0th IFD when the tag is there
HasOrientation(ifd0) == \E e \in ifd0 : e[1] = Orientation

GetOrientation(ifd0) == (CHOOSE e \in ifd0 : e[1] = Orientation)[2]

\* ------------------------------------------------------------------- state
VARIABLES
    \* beeref/fileio/image.py
    arg,        \* load_image's argument: a str or a QUrl
    env,        \* what the call finds: the file's bytes, the network's and the disk's answers
    pc,         \* load_image's position
    img,        \* load_image's local img
    imgdata,    \* load_image's local imgdata
    epc,        \* exif_rotated_image's position
    epath,      \* exif_rotated_image's argument
    eimg,       \* exif_rotated_image's local img
    eexif,      \* exif_rotated_image's exif_dict['0th']
    eret,       \* exif_rotated_image's return value
    tmpDir,     \* the temporary directory: "none", "exists", "removed"
    tmpFile,    \* the file <tmp>/img: "none", "open", "closed"
    tmpContent, \* the bytes of <tmp>/img
    events,     \* the library calls made so far, in order
    result,     \* load_image's return value
    \* tools/build_appimage.py
    args,           \* the parsed command line
    host,           \* what the script finds on the build host
    bpc,            \* the script's position
    trace,          \* the build steps performed so far, in order
    fs,             \* the files the script creates or changes
    data,           \* the parsed JSON document
    existing_files, \* line 104
    paths,          \* line 97
    idx,            \* the position of the loop of line 108 in libs
    copied,         \* the libraries copied so far: <<lib, filename>>
    ld_paths        \* line 135

lvars == <<arg, env, pc, img, imgdata, epc, epath, eimg, eexif, eret,
           tmpDir, tmpFile, tmpContent, events, result>>

bvars == <<args, host, bpc, trace, fs, data, existing_files, paths, idx, copied, ld_paths>>

vars == <<lvars, bvars>>

\* ----------------------------------------------- image.py: inputs and files
PathChars == {"/", ".", "a"}

Paths == SeqsUpTo(PathChars, MaxPathLen)

ImageDims == (1..MaxDim) \X (1..MaxDim)

Images == {MkImage(d[1], d[2]) : d \in ImageDims}

\* what piexif.load can raise
ExifErrors == {"InvalidImageDataError", "ValueError"}

\* the 0th IFD as a set of <<tag, value>>; 271 is the tag Make
Ifd0s == {{}, {<<271, 1>>}} \cup {{<<Orientation, v>>} : v \in 0..MaxOrient}

Missing == [state |-> "missing", img |-> NullImage, exifErr |-> "FileNotFoundError", ifd0 |-> {}]

Garbage == [state |-> "garbage", img |-> NullImage, exifErr |-> "InvalidImageDataError", ifd0 |-> {}]

ImageFiles ==
    {[state |-> "image", img |-> i, exifErr |-> "none", ifd0 |-> d] :
        i \in Images, d \in Ifd0s}
    \cup {[state |-> "image", img |-> i, exifErr |-> e, ifd0 |-> {}] :
        i \in Images, e \in ExifErrors}

SampleFile == [state |-> "image", img |-> MkImage(1, 1), exifErr |-> "none", ifd0 |-> {}]

\* what urlopen(...).read() can raise: URLError and its subclass HTTPError, or
\* an error of another class
NetErrors == {"URLError", "HTTPError", "ValueError", "IncompleteRead"}

\* f.write and the flush on close: both succeed, or one raises OSError
WriteOutcomes == {"ok", "OSError", "OSError on close"}

NoNet == [net |-> "unused", write |-> "unused"]

\* the calls explored: every path with a missing and a plain file, and one
\* path with every file
LoadInputs ==
    {[arg |-> [type |-> "str", scheme |-> "", path |-> p], env |-> [data |-> d] @@ NoNet] :
        p \in Paths, d \in {Missing, SampleFile}}
    \cup {[arg |-> [type |-> "QUrl", scheme |-> "file", path |-> p], env |-> [data |-> d] @@ NoNet] :
        p \in Paths, d \in {Missing, SampleFile}}
    \cup {[arg |-> [type |-> "QUrl", scheme |-> "http", path |-> p],
           env |-> [data |-> SampleFile, net |-> n, write |-> w]] :
        p \in Paths, n \in NetErrors \cup {"ok"}, w \in WriteOutcomes}
    \cup {[arg |-> [type |-> t[1], scheme |-> t[2], path |-> <<"a">>], env |-> [data |-> d] @@ NoNet] :
        t \in {<<"str", "">>, <<"QUrl", "file">>}, d \in ImageFiles \cup {Missing, Garbage}}
    \cup {[arg |-> [type |-> "QUrl", scheme |-> "http", path |-> <<"a">>],
           env |-> [data |-> d, net |-> "ok", write |-> "ok"]] :
        d \in ImageFiles \cup {Garbage}}

\* QUrl.isLocalFile
isLocalFile(u) == u.scheme = "file"

\* QUrl.toLocalFile
toLocalFile(u) == u.path

\* QUrl.url
url(u) == <<u.scheme, ":", "/", "/">> \o u.path

\* exif_rotated_image(): path=None
None == <<"None">>

\* os.path.join(tmp, 'img')
TmpName == <<"tmp", "/", "img">>

\* the bytes a reader finds at a path: nothing without a path, the temporary
\* file's bytes once it is closed (before that they are still buffered), and
\* otherwise the file on disk
ReadFile(p) ==
    IF p = None THEN Missing
    ELSE IF p = TmpName
    THEN (IF tmpFile = "closed" THEN tmpContent
          ELSE IF tmpFile = "open" THEN Garbage ELSE Missing)
    ELSE env.data

\* QImage(path)
QImage(p) == ReadFile(p).img

ExifExceptOnlyInvalidImage(err) == err = "InvalidImageDataError"

\* line 40: the bare except catches every error
ExifExcept(err) == TRUE

\* line 87: except URLError (HTTPError is a subclass)
ExceptURLError(err) == err \in {"URLError", "HTTPError"}

\* line 90: leaving the with block removes the temporary directory
TmpDirExit(d) == IF d = "exists" THEN "removed" ELSE d

CloseFileNot(f) == f

\* line 92: leaving the with block closes the file
CloseFile(f) == "closed"

LocalPathRaw(a) == IF a.type = "str" THEN a.path ELSE toLocalFile(a)

\* lines 78 and 81: the normalized local path
LocalPath(a) == normpath(IF a.type = "str" THEN a.path ELSE toLocalFile(a))

\* lines 77 and 80: a str or a local-file QUrl is read from disk
IsLocal(a) == a.type = "str" \/ isLocalFile(a)

\* ------------------------------------------------------- image.py: actions
Ev(op, p, i) == [op |-> op, path |-> p, img |-> i]

Log(op, p, i) == events' = Append(events, Ev(op, p, i))

\* a call of exif_rotated_image(p)
Call(p) == epc' = "decode" /\ epath' = p /\ UNCHANGED <<eimg, eexif, eret>>

\* lines 34-36: decode, and return the null image at once
Exif_Decode ==
    /\ epc = "decode"
    /\ LET i == QImage(epath)
       IN  /\ eimg' = i
           /\ Log("QImage", epath, i)
           /\ IF isNull(i)
              THEN eret' = i /\ epc' = "ret"
              ELSE epc' = "load" /\ UNCHANGED eret
    /\ UNCHANGED <<arg, env, pc, img, imgdata, epath, eexif,
                   tmpDir, tmpFile, tmpContent, result>>
    /\ UNCHANGED bvars

\* lines 38-42: piexif.load, and the except clause
Exif_Load ==
    /\ epc = "load"
    /\ Log("piexif.load", epath, eimg)
    /\ LET f == ReadFile(epath)
       IN  IF f.exifErr = "none"
           THEN /\ eexif' = f.ifd0
                /\ epc' = "orient"
                /\ UNCHANGED <<eret, pc, tmpDir>>
           ELSE IF ExifExcept(f.exifErr)
           THEN /\ eret' = eimg
                /\ epc' = "ret"
                /\ UNCHANGED <<eexif, pc, tmpDir>>
           ELSE \* the error leaves exif_rotated_image and load_image
                /\ epc' = "idle"
                /\ pc' = "raised"
                /\ tmpDir' = TmpDirExit(tmpDir)
                /\ UNCHANGED <<eexif, eret>>
    /\ UNCHANGED <<arg, env, img, imgdata, epath, eimg, tmpFile, tmpContent, result>>
    /\ UNCHANGED bvars

\* lines 44-73: the orientation tag and its transform
Exif_Orient ==
    /\ epc = "orient"
    /\ eret' = IF HasOrientation(eexif)
               THEN ApplyOrientation(eimg, GetOrientation(eexif))
               ELSE eimg
    /\ epc' = "ret"
    /\ UNCHANGED <<arg, env, pc, img, imgdata, epath, eimg, eexif,
                   tmpDir, tmpFile, tmpContent, events, result>>
    /\ UNCHANGED bvars

\* lines 77-84: the three kinds of argument
Load_Start ==
    /\ pc = "start"
    /\ IF IsLocal(arg)
       THEN pc' = "wait_local" /\ Call(LocalPath(arg))
       ELSE pc' = "wait_null" /\ Call(None)
    /\ UNCHANGED <<arg, env, img, imgdata, tmpDir, tmpFile, tmpContent, events, result>>
    /\ UNCHANGED bvars

\* lines 79 and 82: return (exif_rotated_image(path), path)
Load_ReturnLocal ==
    /\ pc = "wait_local" /\ epc = "ret"
    /\ result' = <<eret, epath>>
    /\ pc' = "done"
    /\ epc' = "idle"
    /\ UNCHANGED <<arg, env, img, imgdata, epath, eimg, eexif, eret,
                   tmpDir, tmpFile, tmpContent, events>>
    /\ UNCHANGED bvars

\* line 84: img = exif_rotated_image()
Load_NullImage ==
    /\ pc = "wait_null" /\ epc = "ret"
    /\ img' = eret
    /\ pc' = "urlopen"
    /\ epc' = "idle"
    /\ UNCHANGED <<arg, env, imgdata, epath, eimg, eexif, eret,
                   tmpDir, tmpFile, tmpContent, events, result>>
    /\ UNCHANGED bvars

\* lines 85-88 and 96: the download, and the return after a URLError
Load_Urlopen ==
    /\ pc = "urlopen"
    /\ Log("urlopen", url(arg), NullImage)
    /\ IF env.net = "ok"
       THEN /\ imgdata' = env.data
            /\ pc' = "mktmp"
            /\ UNCHANGED result
       ELSE IF ExceptURLError(env.net)
       THEN /\ result' = <<img, url(arg)>>
            /\ pc' = "done"
            /\ UNCHANGED imgdata
       ELSE /\ pc' = "raised"
            /\ UNCHANGED <<imgdata, result>>
    /\ UNCHANGED <<arg, env, img, epc, epath, eimg, eexif, eret,
                   tmpDir, tmpFile, tmpContent>>
    /\ UNCHANGED bvars

\* line 90: with tempfile.TemporaryDirectory() as tmp
Load_MkTmp ==
    /\ pc = "mktmp"
    /\ tmpDir' = "exists"
    /\ Log("mkdtemp", TmpName, NullImage)
    /\ pc' = "open"
    /\ UNCHANGED <<arg, env, img, imgdata, epc, epath, eimg, eexif, eret,
                   tmpFile, tmpContent, result>>
    /\ UNCHANGED bvars

\* lines 91-92: open(fname, 'wb')
Load_Open ==
    /\ pc = "open"
    /\ tmpFile' = "open"
    /\ tmpContent' = Garbage
    /\ Log("open", TmpName, NullImage)
    /\ pc' = "write"
    /\ UNCHANGED <<arg, env, img, imgdata, epc, epath, eimg, eexif, eret,
                   tmpDir, result>>
    /\ UNCHANGED bvars

\* line 93: f.write(imgdata); an error of the write leaves both with blocks:
\* the file is closed and the temporary directory is removed
Load_Write ==
    /\ pc = "write"
    /\ IF env.write # "OSError"
       THEN /\ Log("write", TmpName, NullImage)
            /\ tmpContent' = imgdata
            /\ pc' = "close"
            /\ UNCHANGED <<tmpFile, tmpDir>>
       ELSE /\ events' = events \o <<Ev("write", TmpName, NullImage),
                                     Ev("close", TmpName, NullImage),
                                     Ev("rmtree", TmpName, NullImage)>>
            /\ tmpFile' = CloseFile(tmpFile)
            /\ tmpDir' = TmpDirExit(tmpDir)
            /\ pc' = "raised"
            /\ UNCHANGED tmpContent
    /\ UNCHANGED <<arg, env, img, imgdata, epc, epath, eimg, eexif, eret, result>>
    /\ UNCHANGED bvars

\* lines 92-95: the file is closed, then img = exif_rotated_image(fname); an
\* error of the flush on close leaves the outer with block, which removes
\* the temporary directory
Load_CloseAndDecode ==
    /\ pc = "close"
    /\ tmpFile' = CloseFile(tmpFile)
    /\ IF env.write # "OSError on close"
       THEN /\ Log("close", TmpName, NullImage)
            /\ pc' = "wait_tmp"
            /\ Call(TmpName)
            /\ UNCHANGED <<tmpDir, tmpContent>>
       ELSE /\ events' = events \o <<Ev("close", TmpName, NullImage),
                                     Ev("rmtree", TmpName, NullImage)>>
            /\ tmpContent' = Garbage
            /\ tmpDir' = TmpDirExit(tmpDir)
            /\ pc' = "raised"
            /\ UNCHANGED <<epc, epath, eimg, eexif, eret>>
    /\ UNCHANGED <<arg, env, img, imgdata, result>>
    /\ UNCHANGED bvars

\* lines 95-96: the temporary directory is removed, then return (img, path.url())
Load_ReturnDownloaded ==
    /\ pc = "wait_tmp" /\ epc = "ret"
    /\ img' = eret
    /\ tmpDir' = TmpDirExit(tmpDir)
    /\ Log("rmtree", TmpName, NullImage)
    /\ result' = <<eret, url(arg)>>
    /\ pc' = "done"
    /\ epc' = "idle"
    /\ UNCHANGED <<arg, env, imgdata, epath, eimg, eexif, eret, tmpFile, tmpContent>>
    /\ UNCHANGED bvars

\* the value of a name of the script that is not bound yet
Unbound == <<"unbound">>

\* the build script is not running
BuildIdle ==
    /\ args = [redownload |-> FALSE, skip_apt |-> FALSE, version |-> <<>>]
    /\ host = <<>>
    /\ bpc = "idle"
    /\ trace = <<>>
    /\ fs = <<>>
    /\ data = Unbound
    /\ existing_files = Unbound
    /\ paths = Unbound
    /\ idx = 0
    /\ copied = {}
    /\ ld_paths = Unbound

\* load_image is not running
LoadIdle ==
    /\ arg = [type |-> "str", scheme |-> "", path |-> <<>>]
    /\ env = [data |-> Missing] @@ NoNet
    /\ pc = "idle"
    /\ img = NullImage
    /\ imgdata = Missing
    /\ epc = "idle"
    /\ epath = None
    /\ eimg = NullImage
    /\ eexif = {}
    /\ eret = NullImage
    /\ tmpDir = "none"
    /\ tmpFile = "none"
    /\ tmpContent = Missing
    /\ events = <<>>
    /\ result = <<>>

InitLoad ==
    /\ \E in \in LoadInputs : arg = in.arg /\ env = in.env
    /\ pc = "start"
    /\ img = NullImage
    /\ imgdata = Missing
    /\ epc = "idle"
    /\ epath = None
    /\ eimg = NullImage
    /\ eexif = {}
    /\ eret = NullImage
    /\ tmpDir = "none"
    /\ tmpFile = "none"
    /\ tmpContent = Missing
    /\ events = <<>>
    /\ result = <<>>
    /\ BuildIdle

NextLoad ==
    \/ Load_Start
    \/ Exif_Decode
    \/ Exif_Load
    \/ Exif_Orient
    \/ Load_ReturnLocal
    \/ Load_NullImage
    \/ Load_Urlopen
    \/ Load_MkTmp
    \/ Load_Open
    \/ Load_Write
    \/ Load_CloseAndDecode
    \/ Load_ReturnDownloaded

SpecLoad == InitLoad /\ [][NextLoad]_vars

\* ------------------------------------------------- image.py: the properties
\* the image transforms the EXIF standard names, each given by where the
\* pixel at (x, y) of the corrected image comes from
HorizontalMirror(i) ==
    [w |-> i.w, h |-> i.h,
     px |-> [d \in Coords(i.w, i.h) |-> i.px[<<i.w - 1 - d[1], d[2]>>]]]

VerticalMirror(i) ==
    [w |-> i.w, h |-> i.h,
     px |-> [d \in Coords(i.w, i.h) |-> i.px[<<d[1], i.h - 1 - d[2]>>]]]

Rotation180(i) ==
    [w |-> i.w, h |-> i.h,
     px |-> [d \in Coords(i.w, i.h) |-> i.px[<<i.w - 1 - d[1], i.h - 1 - d[2]>>]]]

Transpose(i) ==
    [w |-> i.h, h |-> i.w,
     px |-> [d \in Coords(i.h, i.w) |-> i.px[<<d[2], d[1]>>]]]

\* clockwise by 90 degrees
Rotation90(i) ==
    [w |-> i.h, h |-> i.w,
     px |-> [d \in Coords(i.h, i.w) |-> i.px[<<d[2], i.h - 1 - d[1]>>]]]

Transverse(i) ==
    [w |-> i.h, h |-> i.w,
     px |-> [d \in Coords(i.h, i.w) |-> i.px[<<i.w - 1 - d[2], i.h - 1 - d[1]>>]]]

\* clockwise by 270 degrees
Rotation270(i) ==
    [w |-> i.h, h |-> i.w,
     px |-> [d \in Coords(i.h, i.w) |-> i.px[<<i.w - 1 - d[2], d[1]>>]]]

StandardCorrection(i, ifd0) ==
    IF \A e \in ifd0 : e[1] # 274 THEN i
    ELSE LET v == (CHOOSE e \in ifd0 : e[1] = 274)[2]
         IN  CASE v = 2 -> HorizontalMirror(i)
               [] v = 3 -> Rotation180(i)
               [] v = 4 -> VerticalMirror(i)
               [] v = 5 -> Transpose(i)
               [] v = 6 -> Rotation90(i)
               [] v = 7 -> Transverse(i)
               [] v = 8 -> Rotation270(i)
               [] OTHER -> i

\* the file exif_rotated_image was called on
CalledFile == ReadFile(epath)

ExifLoadCalled ==
    \E k \in 1..Len(events) : events[k].op = "piexif.load" /\ events[k].path = epath

LastEvent == events[Len(events)]

\* C1: when the image decodes and piexif.load fails, with whatever error,
\* exif_rotated_image does not raise and returns the decoded image as it is.
C1_ExifFailureReturnsDecoded ==
    (CalledFile.state = "image" /\ CalledFile.exifErr # "none" /\ ExifLoadCalled)
        => /\ pc # "raised"
           /\ epc \in {"ret", "idle"}
           /\ eret = CalledFile.img

C1_Witness ==
    /\ epc = "ret"
    /\ CalledFile.state = "image"
    /\ CalledFile.exifErr = "ValueError"
    /\ ExifLoadCalled
    /\ eret = MkImage(2, 1)

\* C2: for a non-local URL, once the download has failed, with whatever
\* error, load_image has returned (null image, URL) without raising and has
\* created no temporary file.
C2_AnyDownloadFailureReturnsNull ==
    (arg.scheme = "http" /\ env.net \in NetErrors
     /\ \E k \in 1..Len(events) : events[k].op = "urlopen")
        => /\ pc = "done"
           /\ result = <<NullImage, url(arg)>>
           /\ tmpDir = "none"
           /\ tmpFile = "none"

\* C4: for every decodable image whose EXIF data parse, exif_rotated_image
\* returns the image under the standard correction for its orientation value:
\* 2 horizontal mirror, 3 rotation by 180, 4 vertical mirror, 5 transpose,
\* 6 rotation by 90, 7 transverse, 8 rotation by 270, and the image itself for
\* 1, for an absent tag and for a value outside 1..8.
C4_StandardExifCorrection ==
    (epc = "ret" /\ CalledFile.state = "image" /\ CalledFile.exifErr = "none")
        => eret = StandardCorrection(CalledFile.img, CalledFile.ifd0)

C4_Witness ==
    /\ epc = "ret"
    /\ CalledFile.state = "image"
    /\ CalledFile.img = MkImage(2, 1)
    /\ CalledFile.ifd0 = {<<274, 5>>}
    /\ eret = [w |-> 1, h |-> 2, px |-> [c \in Coords(1, 2) |-> c[2]]]
    /\ eret # CalledFile.img

\* C7: piexif.load is only ever invoked right after a decode of the same path
\* that gave a non-null image; after a decode that gave the null image,
\* exif_rotated_image returns that null image at once.
C7_NullImageSkipsExif ==
    /\ \A k \in 1..Len(events) :
          events[k].op = "piexif.load"
              => /\ k > 1
                 /\ events[k - 1].op = "QImage"
                 /\ events[k - 1].path = events[k].path
                 /\ events[k - 1].img # NullImage
    /\ (epc \in {"load", "orient", "ret"} /\ eimg = NullImage)
          => /\ epc = "ret"
             /\ eret = NullImage
             /\ LastEvent.op = "QImage"

C7_Witness ==
    /\ epc = "ret"
    /\ epath = <<"a">>
    /\ CalledFile.state = "garbage"
    /\ eret = NullImage
    /\ LastEvent.op = "QImage"

\* C8: for a str or a local-file URL no network connection is opened and no
\* temporary file is created, and the pair returned holds the normalized local
\* path; for a non-local URL the pair returned holds the URL string.
C8_DownloadOnlyForRemote ==
    /\ (arg.type = "str" \/ arg.scheme = "file")
          => /\ \A k \in 1..Len(events) : events[k].op \in {"QImage", "piexif.load"}
             /\ tmpDir = "none"
             /\ tmpFile = "none"
             /\ pc # "raised"
             /\ pc = "done" => result[2] = normpath(arg.path)
    /\ (arg.type = "QUrl" /\ arg.scheme = "http" /\ pc = "done")
          => result[2] = <<"http", ":", "/", "/">> \o arg.path

C8_Witness ==
    /\ pc = "done"
    /\ arg.type = "QUrl"
    /\ arg.scheme = "file"
    /\ arg.path = <<"a", "/", ".", ".">>
    /\ result[2] = <<".">>

EventAt(op, k) == k \in 1..Len(events) /\ events[k].op = op /\ events[k].path = TmpName

\* C9: while exif_rotated_image works on the temporary file, the file holds
\* all the downloaded bytes and is closed, and its directory exists; the file
\* is decoded only after its write and its close, and the directory is removed
\* only after that decode (a download that succeeds ends with the four in this
\* order); and once load_image has returned or raised, the directory is gone.
C9_TempFileLifetime ==
    /\ (epath = TmpName /\ epc \in {"decode", "load", "orient", "ret"})
          => /\ tmpFile = "closed"
             /\ tmpContent = imgdata
             /\ tmpDir = "exists"
    /\ \A k \in 1..Len(events) :
          /\ EventAt("QImage", k)
                => /\ \E w, c \in 1..k : w < c /\ c < k /\ EventAt("write", w) /\ EventAt("close", c)
                   /\ \A r \in 1..k : ~EventAt("rmtree", r)
          /\ (EventAt("rmtree", k) /\ env.write = "ok")
                => \E d \in 1..k : d < k /\ EventAt("QImage", d)
    /\ (pc = "done" /\ tmpDir # "none")
          => \E w, c, d, r \in 1..Len(events) :
                /\ w < c /\ c < d /\ d < r
                /\ EventAt("write", w) /\ EventAt("close", c)
                /\ EventAt("QImage", d) /\ EventAt("rmtree", r)
    /\ pc \in {"done", "raised"} => tmpDir \in {"none", "removed"}

C9_Witness ==
    /\ pc = "done"
    /\ tmpDir = "removed"
    /\ tmpFile = "closed"
    /\ result[1] = MkImage(2, 2)

\* ------------------------------------------- build_appimage.py: path helpers
\* the position of the last occurrence of c in s, 0 when there is none (rfind + 1)
RFind1(s, c) ==
    IF \E k \in 1..Len(s) : s[k] = c
    THEN CHOOSE k \in 1..Len(s) : s[k] = c /\ \A j \in (k + 1)..Len(s) : s[j] # c
    ELSE 0

\* str.rstrip('/')
RECURSIVE RStripSlash(_)
RStripSlash(s) ==
    IF s # <<>> /\ s[Len(s)] = "/" THEN RStripSlash(SubSeq(s, 1, Len(s) - 1)) ELSE s

\* os.path.basename
basename(p) == SubSeq(p, RFind1(p, "/") + 1, Len(p))

\* os.path.dirname
dirname(p) ==
    LET head == SubSeq(p, 1, RFind1(p, "/"))
    IN  IF head # <<>> /\ \E k \in 1..Len(head) : head[k] # "/"
        THEN RStripSlash(head)
        ELSE head

\* os.path.splitext(p)[0]
splitext0(p) ==
    LET sepIndex == RFind1(p, "/")
        dotIndex == RFind1(p, ".")
    IN  IF dotIndex > sepIndex
           /\ \E k \in (sepIndex + 1)..(dotIndex - 1) : p[k] # "."
        THEN SubSeq(p, 1, dotIndex - 1)
        ELSE p

\* str.removeprefix
removeprefix(s, prefix) ==
    IF StartsWith(s, prefix) THEN SubSeq(s, Len(prefix) + 1, Len(s)) ELSE s

\* the orders in which a set can be listed
Perms(S) == {q \in [1..Cardinality(S) -> S] : \A x \in S : \E k \in 1..Cardinality(S) : q[k] = x}

\* -------------------------------------------- build_appimage.py: the inputs
LibA1 == <<"/", "usr", "/", "lib", "/", "liba", ".", "so", ".", "1">>

LibB1 == <<"/", "usr", "/", "lib", "/", "libb", ".", "so", ".", "1">>

LibA2 == <<"/", "lib", "/", "x", "/", "liba", ".", "so", ".", "1">>

LibB2 == <<"/", "lib", "/", "x", "/", "libb", ".", "so", ".", "1">>

\* the libraries a JSON document may list
Catalogue == {LibA1, LibB1, LibA2, LibB2}

LibNames == {basename(l) : l \in Catalogue}

AppRun == <<"AppRun">>

Versions == {<<"v", "1">>, <<"1">>}

\* exit codes of a subprocess: success, failure, killed by a signal
ExitCodes == {0, 1, -9}

\* the command line --version v1 --jsonfile <file>: the switches at their defaults
DefaultArgs == [redownload |-> FALSE, skip_apt |-> FALSE, version |-> <<"v", "1">>]

DefaultDisk == [python |-> FALSE, tool |-> FALSE, squashfs |-> FALSE]

\* the runs explored: every command line on every state of the working
\* directory with one JSON document, and the command line with and without
\* --skip-apt with every JSON document and every content of the base image
BuildInputs ==
    {[args |-> [redownload |-> r, skip_apt |-> a, version |-> v],
      host |-> [disk |-> [python |-> p, tool |-> t, squashfs |-> q],
                baseFiles |-> {},
                json |-> [libs |-> <<LibA1>>, packages |-> <<"pkg">>, excludes |-> {}]]] :
        r \in BOOLEAN, a \in BOOLEAN, v \in Versions,
        p \in BOOLEAN, t \in BOOLEAN, q \in BOOLEAN}
    \cup {[args |-> [DefaultArgs EXCEPT !.skip_apt = a],
           host |-> [disk |-> DefaultDisk,
                     baseFiles |-> b,
                     json |-> [libs |-> l, packages |-> <<"pkg">>, excludes |-> e]]] :
        a \in BOOLEAN,
        l \in SeqsUpTo(Catalogue, MaxLibs), b \in SUBSET LibNames, e \in SUBSET LibNames}

\* line 51
BEEVERSION == removeprefix(args.version, <<"v">>)

\* line 53
PYVER == <<"3", ".", "11">>

\* line 169
OutputName == <<"BeeRef-">> \o BEEVERSION \o <<".", "appimage">>

\* ------------------------------------------- build_appimage.py: the actions
Step(s, code, existed, fetch) == [step |-> s, code |-> code, existed |-> existed, fetch |-> fetch]

Did(s, code, existed, fetch) == trace' = Append(trace, Step(s, code, existed, fetch))

AssertIgnored(code) == TRUE

\* line 61: assert result.returncode == 0
AssertReturnCode(code) == code = 0

\* line 65: the file is fetched unless not args.redownload and it exists
ShouldFetch(redownload, exists) == ~(~redownload /\ exists)

SkipAptNever(a) == FALSE

\* line 99
SkipApt(a) == a.skip_apt

AlreadyInAppimageNow(lib) == basename(lib) \in fs.files

\* line 109
AlreadyInAppimage(lib) == basename(lib) \in existing_files

\* line 112
Excluded(lib) == basename(lib) \in data.excludes

\* line 132
UsrLib == <<"/", "usr", "/", "lib">>

\* lines 131-135: the value of LD_LIBRARY_PATH for the directories in order
LdPaths(order) ==
    LET plist == <<UsrLib>> \o order
    IN  Join(<<":">>, [k \in 1..(Len(plist) + 1) |->
                         IF k <= Len(plist)
                         THEN <<"${APPDIR}">> \o plist[k]
                         ELSE <<"${LD_LIBRARY_PATH}">>])

\* lines 58-61: run_command; newfs is what the command leaves on disk
run_command(step, next, newfs) ==
    \E code \in ExitCodes :
        /\ Did(step, code, FALSE, FALSE)
        /\ IF AssertReturnCode(code)
           THEN bpc' = next /\ fs' = newfs
           ELSE bpc' = "aborted" /\ fs' = fs

\* lines 64-71: download_file; urlretrieve stores the file, or raises before
\* it has opened it (the file is as before), or raises after it has written a
\* part of it (partfs); newfs is the disk after the download and the chmod
download_file(step, next, exists, partfs, newfs) ==
    LET fetch == ShouldFetch(args.redownload, exists)
    IN  \E got \in (IF fetch THEN {"stored", "refused", "truncated"} ELSE {"stored"}) :
            /\ Did(step, 0, exists, fetch)
            /\ IF got = "stored"
               THEN bpc' = next /\ fs' = newfs
               ELSE bpc' = "aborted" /\ fs' = (IF got = "truncated" THEN partfs ELSE fs)

\* line 76: download_file(url, filename='python.appimage')
Build_DownloadPython ==
    /\ bpc = "download_python"
    /\ download_file("download_python", "rmtree", fs.python,
                     [fs EXCEPT !.python = TRUE],
                     [fs EXCEPT !.python = TRUE, !.exec = @ \cup {<<"python.appimage">>}])
    /\ UNCHANGED <<args, host, data, existing_files, paths, idx, copied, ld_paths>>
    /\ UNCHANGED lvars

\* lines 79-82: shutil.rmtree('squashfs-root'), FileNotFoundError ignored
Build_Rmtree ==
    /\ bpc = "rmtree"
    /\ Did("rmtree", 0, fs.squashfs, FALSE)
    /\ fs' = [fs EXCEPT !.squashfs = FALSE, !.files = {}, !.apprun = "none"]
    /\ bpc' = "extract"
    /\ UNCHANGED <<args, host, data, existing_files, paths, idx, copied, ld_paths>>
    /\ UNCHANGED lvars

\* lines 83-84: ./python.appimage --appimage-extract
Build_Extract ==
    /\ bpc = "extract"
    /\ run_command("extract", "pip",
                   [fs EXCEPT !.squashfs = TRUE,
                              !.files = @ \cup host.baseFiles \cup {AppRun},
                              !.apprun = "symlink"])
    /\ UNCHANGED <<args, host, data, existing_files, paths, idx, copied, ld_paths>>
    /\ UNCHANGED lvars

\* lines 86-89: pip install . --target=...
Build_Pip ==
    /\ bpc = "pip"
    /\ run_command("pip", "read_json", fs)
    /\ UNCHANGED <<args, host, data, existing_files, paths, idx, copied, ld_paths>>
    /\ UNCHANGED lvars

\* lines 91-97: the JSON document
Build_ReadJson ==
    /\ bpc = "read_json"
    /\ Did("read_json", 0, FALSE, FALSE)
    /\ data' = host.json
    /\ paths' = {}
    /\ bpc' = "apt"
    /\ UNCHANGED <<args, host, fs, existing_files, idx, copied, ld_paths>>
    /\ UNCHANGED lvars

\* lines 99-100: apt install, unless --skip-apt
Build_Apt ==
    /\ bpc = "apt"
    /\ IF SkipApt(args)
       THEN bpc' = "walk" /\ UNCHANGED <<fs, trace>>
       ELSE run_command("apt", "walk", fs)
    /\ UNCHANGED <<args, host, data, existing_files, paths, idx, copied, ld_paths>>
    /\ UNCHANGED lvars

\* lines 102-106: the names of the files in squashfs-root
Build_Walk ==
    /\ bpc = "walk"
    /\ Did("copy_libs", 0, FALSE, FALSE)
    /\ existing_files' = fs.files
    /\ idx' = 1
    /\ bpc' = IF Len(data.libs) = 0 THEN "remove_apprun" ELSE "loop"
    /\ UNCHANGED <<args, host, fs, data, paths, copied, ld_paths>>
    /\ UNCHANGED lvars

\* lines 108-123: one iteration of the loop over libs; the library is on the
\* host under its name, under its name without the last extension, or not at all
Build_CopyLib ==
    /\ bpc = "loop"
    /\ LET lib == data.libs[idx]
           next == IF idx = Len(data.libs) THEN "remove_apprun" ELSE "loop"
       IN  IF AlreadyInAppimage(lib) \/ Excluded(lib)
           THEN /\ idx' = idx + 1
                /\ bpc' = next
                /\ UNCHANGED <<paths, copied, fs, trace>>
           ELSE /\ paths' = paths \cup {dirname(lib)}
                /\ \E found \in {"exists", "stem", "absent"} :
                      LET filename == IF found = "exists" THEN lib ELSE splitext0(lib)
                      IN  /\ Did("copyfile", 0, found # "absent", FALSE)
                          /\ IF found = "absent"
                             THEN /\ bpc' = "aborted"
                                  /\ UNCHANGED <<idx, copied, fs>>
                             ELSE /\ copied' = copied \cup {<<idx, lib, filename>>}
                                  /\ fs' = [fs EXCEPT !.files = @ \cup {basename(filename)}]
                                  /\ idx' = idx + 1
                                  /\ bpc' = next
    /\ UNCHANGED <<args, host, data, existing_files, ld_paths>>
    /\ UNCHANGED lvars

\* line 128: os.remove('squashfs-root/AppRun')
Build_RemoveAppRun ==
    /\ bpc = "remove_apprun"
    /\ Did("remove_apprun", 0, fs.apprun # "none", FALSE)
    /\ fs' = [fs EXCEPT !.apprun = "none", !.files = @ \ {AppRun}]
    /\ bpc' = "write_apprun"
    /\ UNCHANGED <<args, host, data, existing_files, paths, idx, copied, ld_paths>>
    /\ UNCHANGED lvars

\* lines 131-160: the launcher script; list(paths) lists the set in some
\* order, and paths is bound anew to the list that starts with /usr/lib
Build_WriteAppRun ==
    /\ bpc = "write_apprun"
    /\ \E order \in Perms(paths) :
          /\ paths' = <<UsrLib>> \o order
          /\ ld_paths' = LdPaths(order)
          /\ fs' = [fs EXCEPT !.apprun = "script", !.ld = LdPaths(order),
                              !.files = @ \cup {AppRun}]
    /\ Did("write_apprun", 0, FALSE, FALSE)
    /\ bpc' = "chmod_apprun"
    /\ UNCHANGED <<args, host, data, existing_files, idx, copied>>
    /\ UNCHANGED lvars

\* line 161: os.chmod('squashfs-root/AppRun', 0o755)
Build_ChmodAppRun ==
    /\ bpc = "chmod_apprun"
    /\ Did("chmod_apprun", 0, TRUE, FALSE)
    /\ fs' = [fs EXCEPT !.exec = @ \cup {AppRun}]
    /\ bpc' = "download_tool"
    /\ UNCHANGED <<args, host, data, existing_files, paths, idx, copied, ld_paths>>
    /\ UNCHANGED lvars

\* line 166: download_file(url, filename='appimagetool.appimage')
Build_DownloadTool ==
    /\ bpc = "download_tool"
    /\ download_file("download_tool", "package", fs.tool,
                     [fs EXCEPT !.tool = TRUE],
                     [fs EXCEPT !.tool = TRUE, !.exec = @ \cup {<<"appimagetool.appimage">>}])
    /\ UNCHANGED <<args, host, data, existing_files, paths, idx, copied, ld_paths>>
    /\ UNCHANGED lvars

\* lines 167-170: ./appimagetool.appimage squashfs-root BeeRef-<BEEVERSION>.appimage
Build_Package ==
    /\ bpc = "package"
    /\ run_command("package", "done", [fs EXCEPT !.out = OutputName])
    /\ UNCHANGED <<args, host, data, existing_files, paths, idx, copied, ld_paths>>
    /\ UNCHANGED lvars

InitBuild ==
    /\ \E in \in BuildInputs :
          /\ args = in.args
          /\ host = in.host
          /\ fs = [python |-> in.host.disk.python,
                   tool |-> in.host.disk.tool,
                   squashfs |-> in.host.disk.squashfs,
                   files |-> IF in.host.disk.squashfs THEN LibNames \cup {AppRun} ELSE {},
                   apprun |-> IF in.host.disk.squashfs THEN "script" ELSE "none",
                   ld |-> <<>>,
                   exec |-> {},
                   out |-> <<>>]
    /\ bpc = "download_python"
    /\ trace = <<>>
    /\ data = Unbound
    /\ existing_files = Unbound
    /\ paths = Unbound
    /\ idx = 0
    /\ copied = {}
    /\ ld_paths = Unbound
    /\ LoadIdle

NextBuild ==
    \/ Build_DownloadPython
    \/ Build_Rmtree
    \/ Build_Extract
    \/ Build_Pip
    \/ Build_ReadJson
    \/ Build_Apt
    \/ Build_Walk
    \/ Build_CopyLib
    \/ Build_RemoveAppRun
    \/ Build_WriteAppRun
    \/ Build_ChmodAppRun
    \/ Build_DownloadTool
    \/ Build_Package

SpecBuild == InitBuild /\ [][NextBuild]_vars

\* ------------------------------------------ build_appimage.py: the properties
StepNames(t) == [k \in 1..Len(t) |-> t[k].step]

\* a sequence without its elements equal to x
RECURSIVE Without(_, _)
Without(q, x) ==
    IF q = <<>> THEN <<>>
    ELSE IF Head(q) = x THEN Without(Tail(q), x)
    ELSE <<Head(q)>> \o Without(Tail(q), x)

IsPrefix(p, q) == Len(p) <= Len(q) /\ SubSeq(q, 1, Len(p)) = p

\* the steps of a build that completes, in order
BuildOrder ==
    <<"download_python", "rmtree", "extract", "pip", "read_json">>
    \o (IF args.skip_apt THEN <<>> ELSE <<"apt">>)
    \o <<"copy_libs", "remove_apprun", "write_apprun", "chmod_apprun",
         "download_tool", "package">>

\* C3: a subprocess of run_command that exits with a non-zero code is the last
\* thing the build does: the build has aborted, no later step has run and the
\* command has not run again.
C3_NonZeroExitAborts ==
    \A k \in 1..Len(trace) :
        trace[k].code # 0 => (k = Len(trace) /\ bpc = "aborted")

C3_Witness ==
    /\ bpc = "aborted"
    /\ Len(trace) = 4
    /\ trace[4].step = "pip"
    /\ trace[4].code = 1

\* C5: the steps of the build happen in the order download base image,
\* remove squashfs-root, extract, pip install, read JSON, apt install (only
\* without --skip-apt), copy libraries, remove AppRun, write the launcher,
\* make it executable, download appimagetool, package; each at most once, the
\* copies of single libraries all between the start of the copy step and the
\* removal of AppRun. A build that completes has done them all and has packaged
\* into BeeRef-<version>.appimage, the version without its leading v.
C5_BuildStepOrder ==
    /\ IsPrefix(Without(StepNames(trace), "copyfile"), BuildOrder)
    /\ \A k \in 1..Len(trace) :
          trace[k].step = "copyfile"
              => /\ \E j \in 1..(k - 1) : trace[j].step = "copy_libs"
                 /\ \A j \in 1..(k - 1) : trace[j].step # "remove_apprun"
    /\ \A k \in 1..Len(trace) :
          trace[k].step = "package"
              => \E j \in 1..(k - 1) : trace[j].step = "write_apprun"
    /\ bpc = "done"
          => /\ Without(StepNames(trace), "copyfile") = BuildOrder
             /\ fs.apprun = "script"
             /\ AppRun \in fs.exec
             /\ fs.out = <<"BeeRef-", "1", ".", "appimage">>

C5_Witness ==
    /\ bpc = "done"
    /\ ~args.skip_apt
    /\ args.version = <<"v", "1">>
    /\ \E k \in 1..Len(trace) : trace[k].step = "copyfile"
    /\ \E k \in 1..Len(trace) : trace[k].step = "apt"

\* C6: with --redownload, download_file does not fetch a file that is
\* already on disk.
C6_RedownloadReusesFiles ==
    \A k \in 1..Len(trace) :
        (args.redownload /\ trace[k].step \in {"download_python", "download_tool"}
         /\ trace[k].existed)
            => ~trace[k].fetch

HasStep(name) == \E k \in 1..Len(trace) : trace[k].step = name

\* the build has ended in a copyfile that raised
CopyRaised ==
    /\ bpc = "aborted"
    /\ Len(trace) > 0
    /\ trace[Len(trace)].step = "copyfile"
    /\ ~trace[Len(trace)].existed

\* the libraries the loop has reached, by position in libs; the one whose
\* copyfile raised is among them
Reached ==
    IF ~HasStep("copy_libs") THEN {}
    ELSE IF bpc = "loop" THEN 1..(idx - 1)
    ELSE IF CopyRaised THEN 1..idx
    ELSE 1..Len(data.libs)

WasCopied(k) == \E c \in copied : c[1] = k

\* copyfile was called for the library at position k
CopyCalled(k) == WasCopied(k) \/ (CopyRaised /\ k = idx)

\* the directories of the libraries copyfile was called for
AddedDirs == {dirname(data.libs[k]) : k \in {j \in Reached : CopyCalled(j)}}

\* the names of the files in squashfs-root before the loop: those of the
\* extracted base image
FilesBeforeLoop == host.baseFiles \cup {AppRun}

NotSkipped(k) ==
    /\ basename(data.libs[k]) \notin FilesBeforeLoop
    /\ basename(data.libs[k]) \notin host.json.excludes

LdEntries == Split(ld_paths, ":")

LdEntry(dir) == <<"${APPDIR}">> \o dir

\* C10 as claimed: once the launcher is written, a library of the JSON list
\* has been copied if and only if its basename is neither the name of a file
\* that was in squashfs-root before the loop nor in excludes; the directory of
\* every copied library and of no skipped library is in LD_LIBRARY_PATH, which
\* begins with ${APPDIR}/usr/lib and ends with ${LD_LIBRARY_PATH}.
C10_Original ==
    HasStep("write_apprun")
        => /\ \A k \in 1..Len(data.libs) :
                 /\ WasCopied(k) <=> NotSkipped(k)
                 /\ WasCopied(k)
                       => \E e \in 1..Len(LdEntries) : LdEntries[e] = LdEntry(dirname(data.libs[k]))
                 /\ ~WasCopied(k)
                       => \A e \in 1..Len(LdEntries) : LdEntries[e] # LdEntry(dirname(data.libs[k]))
           /\ StartsWith(ld_paths, <<"${APPDIR}", "/", "usr", "/", "lib">>)
           /\ EndsWith(ld_paths, <<"${LD_LIBRARY_PATH}">>)

\* C10, amended: copyfile is called for a library the loop has reached if and
\* only if its basename is neither the name of a file that was in
\* squashfs-root before the loop nor in excludes, and the library is then
\* copied unless copyfile raises, which aborts the build; the directories
\* added for LD_LIBRARY_PATH are exactly those of the libraries copyfile was
\* called for, so that the directory of a skipped library is in
\* LD_LIBRARY_PATH only when it is /usr/lib or the directory of a copied
\* library too; and LD_LIBRARY_PATH is ${APPDIR}/usr/lib, then each added
\* directory once with ${APPDIR} before it, then ${LD_LIBRARY_PATH}.
C10_CopiedLibsAndLdPath ==
    /\ \A k \in Reached :
          /\ CopyCalled(k) <=> NotSkipped(k)
          /\ (CopyCalled(k) /\ ~WasCopied(k)) => (bpc = "aborted" /\ k = idx)
    /\ \A c \in copied : c[1] \in Reached /\ c[2] = data.libs[c[1]]
    /\ (HasStep("read_json") /\ ~HasStep("write_apprun")) => paths = AddedDirs
    /\ HasStep("write_apprun")
          => /\ AddedDirs = {dirname(c[2]) : c \in copied}
             /\ paths[1] = <<"/", "usr", "/", "lib">>
             /\ Len(paths) = Cardinality(AddedDirs) + 1
             /\ {paths[k] : k \in 2..Len(paths)} = AddedDirs
             /\ StartsWith(ld_paths, <<"${APPDIR}", "/", "usr", "/", "lib">>)
             /\ EndsWith(ld_paths, <<"${LD_LIBRARY_PATH}">>)
             /\ LdEntries[1] = <<"${APPDIR}", "/", "usr", "/", "lib">>
             /\ LdEntries[Len(LdEntries)] = <<"${LD_LIBRARY_PATH}">>
             /\ Len(LdEntries) = Cardinality(AddedDirs) + 2
             /\ {LdEntries[k] : k \in 2..(Len(LdEntries) - 1)}
                    = {LdEntry(d) : d \in AddedDirs}
             /\ \A k \in 1..Len(data.libs) :
                   (~WasCopied(k)
                    /\ \E e \in 1..Len(LdEntries) : LdEntries[e] = LdEntry(dirname(data.libs[k])))
                       => \/ dirname(data.libs[k]) = <<"/", "usr", "/", "lib">>
                          \/ \E j \in 1..Len(data.libs) :
                                WasCopied(j) /\ dirname(data.libs[j]) = dirname(data.libs[k])
             /\ fs.ld = ld_paths

\* a build that has copied one library and skipped another of the same
\* directory, which is in LD_LIBRARY_PATH
C10_Witness ==
    /\ bpc = "done"
    /\ data.libs = <<LibA2, LibB2>>
    /\ host.json.excludes = {basename(LibB2)}
    /\ WasCopied(1)
    /\ ~WasCopied(2)
    /\ Len(LdEntries) = 3
    /\ LdEntries[2] = LdEntry(dirname(LibB2))

====
